---- MODULE Spec2Model ----
(***************************************************************************)
(* PoPie (strawberry-tools): the syntax-tree analyzer that extracts the    *)
(* strings of `_(ctx, "...")` calls, and the catalog file (PoPieFile) that *)
(* the extracted strings are merged into.                                  *)
(*                                                                         *)
(* Texts are sequences of one-character strings, so that stripping,        *)
(* prefix tests and line splitting are computed, not assumed.              *)
(***************************************************************************)
EXTENDS Naturals, Integers, Sequences, FiniteSets, TLC

(***************************************************************************)
(* Syntax trees (the output of ast.parse).  Every node has the same record *)
(* shape; `a`, `b`, `c` hold the child nodes in the order of the node      *)
(* class's _fields:                                                        *)
(*   Call: a = <<func>>, b = args, c = keywords                            *)
(*   keyword: a = <<value>>, name = arg                                    *)
(*   Attribute: a = <<value>>, name = attr                                 *)
(*   Name: name = id          Constant: val = the literal's value          *)
(*   List / Tuple / Set: a = elts        Dict: a = keys, b = values        *)
(*   BinOp: a = <<left>>, b = <<right>>  UnaryOp / Starred / Expr: a       *)
(*   Module: a = body                                                      *)
(***************************************************************************)
NoVal == [type |-> "NoneType", text |-> <<>>]

Node(kind, name, val, line, col, a, b, c) ==
    [kind |-> kind, name |-> name, val |-> val, line |-> line, col |-> col,
     a |-> a, b |-> b, c |-> c]

Name(id, line, col) == Node("Name", id, NoVal, line, col, <<>>, <<>>, <<>>)

Constant(type, text, line, col) ==
    Node("Constant", "", [type |-> type, text |-> text], line, col, <<>>, <<>>, <<>>)

Attribute(value, attr, line, col) ==
    Node("Attribute", attr, NoVal, line, col, <<value>>, <<>>, <<>>)

Call(func, args, keywords, line, col) ==
    Node("Call", "", NoVal, line, col, <<func>>, args, keywords)

keyword(arg, value, line, col) ==
    Node("keyword", arg, NoVal, line, col, <<value>>, <<>>, <<>>)

Elts(kind, elts, line, col) == Node(kind, "", NoVal, line, col, elts, <<>>, <<>>)

Dict(keys, values, line, col) == Node("Dict", "", NoVal, line, col, keys, values, <<>>)

BinOp(left, right, line, col) ==
    Node("BinOp", "", NoVal, line, col, <<left>>, <<right>>, <<>>)

Unary(kind, operand, line, col) ==
    Node(kind, "", NoVal, line, col, <<operand>>, <<>>, <<>>)

Module(body) == Node("Module", "", NoVal, 0, 0, body, <<>>, <<>>)

(* The child nodes of a node, in the order ast.iter_fields yields them. *)
Children(node) == node.a \o node.b \o node.c

(***************************************************************************)
(* popie/constants.py                                                      *)
(***************************************************************************)
LANGUAGES == <<"cs", "sk">>

CONTEXTS == <<"ctx", "itx", "utx", "gtx">>

Range(s) == {s[i] : i \in DOMAIN s}

(***************************************************************************)
(* popie/object_types.py: a located text (String or Error).                *)
(* The text of a String is a sequence of characters; the text of an Error  *)
(* is the sequence of the fragments its message is formatted from.         *)
(***************************************************************************)
Located(line, col, text) == [line |-> line, col |-> col, text |-> text]

(***************************************************************************)
(* Messages of the analyzer.                                               *)
(***************************************************************************)
RECURSIVE JoinQuoted(_)
(* ", ".join(f"'{c}'" for c in names), as fragments *)
JoinQuoted(names) ==
    IF names = <<>> THEN <<>>
    ELSE IF Len(names) = 1 THEN <<"'", names[1], "'">>
    ELSE <<"'", names[1], "'", ", ">> \o JoinQuoted(Tail(names))

MsgArgCount(n) == <<"Bad argument count (expected 2, got ", ToString(n), ").">>

MsgBadFormat ==
    <<"Bad '.format()' placement in translation function (has to be outside of '_()' call.)">>

MsgNotLiteral == <<"Bad string argument (has to be literal, not variable).">>

MsgInherited(attr) ==
    <<"Inherited translation context variable has to be one of ">>
    \o JoinQuoted(CONTEXTS) \o <<", got '", attr, "'.">>

MsgContext(id) ==
    <<"Translation context variable has to be one of ">>
    \o JoinQuoted(CONTEXTS) \o <<", got '", id, "'.">>

MsgDeprecated ==
    <<"Translation context variable name 'tc' is deprecated, use 'utx' instead. 'tc' may not be accepted in the future.">>

MsgNotStr(type) == <<"Translation string has to be of type 'str', not '", type, "'.">>

MsgStartWs == <<"Translation string must not start with whitespace.">>

MsgEndWs == <<"Translation string must not end with whitespace.">>

MsgNewline == <<"Translation string must not contain newlines.">>

(***************************************************************************)
(* popie/analyzer.py.  The analyzer's fields and the exception that is     *)
(* propagating, if any, are threaded through the traversal as one record.  *)
(***************************************************************************)
NewAnalyzer == [strings |-> <<>>, errors |-> <<>>, warnings |-> <<>>, raised |-> "none"]

AddError(st, e) == [st EXCEPT !.errors = Append(@, e)]

AddWarning(st, w) == [st EXCEPT !.warnings = Append(@, w)]

AddString(st, s) == [st EXCEPT !.strings = Append(@, s)]

Raise(st, exc) == [st EXCEPT !.raised = exc]

(* Error.from_string(string, text): object_types.py defines no from_string
   on Error or its base class, so the attribute lookup raises *)
from_string(st, string, text) == Raise(st, "AttributeError")

(* Analyzer._check_string: <<accepted, analyzer afterwards>> *)
_check_string(string, st) ==
    IF string.text = <<>> THEN <<FALSE, Raise(st, "IndexError")>>
    ELSE IF string.text[1] \in {" ", "\t"}
      THEN <<FALSE, from_string(st, string, MsgStartWs)>>
    ELSE IF string.text[Len(string.text)] \in {" ", "\t"}
      THEN <<FALSE, from_string(st, string, MsgEndWs)>>
    ELSE IF "\n" \in Range(string.text)
      THEN <<FALSE, from_string(st, string, MsgNewline)>>
    ELSE <<TRUE, st>>

(* a variant in which visit_Call does not inspect the object a method is
   called on *)
ValueOf_ignored(node) == <<>>

(* getattr(node, "value", None) when it is a node: the operand of _iterate
   at the start of visit_Call *)
ValueOf(node) == IF node.kind \in {"Attribute", "Starred"} THEN node.a ELSE <<>>

RECURSIVE visit(_, _)
RECURSIVE visit_each(_, _)
RECURSIVE _iterate(_, _)
RECURSIVE visit_Call(_, _)

(* ast.NodeVisitor.generic_visit: visit every child node, field by field *)
generic_visit(node, st) == visit_each(Children(node), st)

(* a variant of the context check in which the name `tc` is not accepted *)
check_context_tc_rejected(node, st) ==
    LET func == node.a[1]
        node_ctx == node.b[1]
        node_str == node.b[2]
        atCallee(msg) == Located(func.line, func.col, msg)
    IN
    IF node_ctx.kind = "Attribute" /\ node_ctx.a[1].kind # "Name"
      THEN Raise(st, "AttributeError")
    ELSE IF node_ctx.kind = "Attribute"
            /\ (node_ctx.a[1].name # "self" \/ node_ctx.name \notin Range(CONTEXTS))
      THEN AddError(st, Located(node_ctx.line, node_ctx.col, MsgInherited(node_ctx.name)))
    ELSE IF node_ctx.kind \notin {"Attribute", "Name"}
      THEN Raise(st, "AttributeError")
    ELSE IF node_ctx.kind = "Name" /\ node_ctx.name \notin Range(CONTEXTS)
      THEN AddError(st, atCallee(MsgContext(node_ctx.name)))
    ELSE
    LET s1 == IF node_ctx.kind = "Name" /\ node_ctx.name = "tc"
                THEN AddWarning(st, atCallee(MsgDeprecated))
                ELSE st
    IN
    IF node_str.val.type # "str"
      THEN AddError(s1, atCallee(MsgNotStr(node_str.val.type)))
    ELSE
    LET s == Located(node_str.line, node_str.col, node_str.val.text)
        chk == _check_string(s, s1)
    IN
    IF ~chk[1] THEN chk[2]
    ELSE generic_visit(node, AddString(chk[2], s))

(* visit_Call from the context check to its end, for a call of two
   arguments whose second is a literal (the branch for a second argument
   that is a Call is unreachable after the literal check) *)
check_context(node, st) ==
    LET func == node.a[1]
        node_ctx == node.b[1]
        node_str == node.b[2]
        atCallee(msg) == Located(func.line, func.col, msg)
    IN
    IF node_ctx.kind = "Attribute" /\ node_ctx.a[1].kind # "Name"
      THEN Raise(st, "AttributeError")
    ELSE IF node_ctx.kind = "Attribute"
            /\ (node_ctx.a[1].name # "self" \/ node_ctx.name \notin Range(CONTEXTS))
      THEN AddError(st, Located(node_ctx.line, node_ctx.col, MsgInherited(node_ctx.name)))
    ELSE IF node_ctx.kind \notin {"Attribute", "Name"}
      THEN Raise(st, "AttributeError")
    ELSE IF node_ctx.kind = "Name" /\ node_ctx.name \notin Range(CONTEXTS \o <<"tc">>)
      THEN AddError(st, atCallee(MsgContext(node_ctx.name)))
    ELSE
    LET s1 == IF node_ctx.kind = "Name" /\ node_ctx.name = "tc"
                THEN AddWarning(st, atCallee(MsgDeprecated))
                ELSE st
    IN
    IF node_str.val.type # "str"
      THEN AddError(s1, atCallee(MsgNotStr(node_str.val.type)))
    ELSE
    LET s == Located(node_str.line, node_str.col, node_str.val.text)
        chk == _check_string(s, s1)
    IN
    IF ~chk[1] THEN chk[2]
    ELSE generic_visit(node, AddString(chk[2], s))

(* a variant of validate that tests for a literal before it looks for a
   misplaced .format() *)
validate_literal_first(node, st) ==
    LET func == node.a[1]
        args == node.b
        atCallee(msg) == Located(func.line, func.col, msg)
    IN
    IF Len(args) # 2 THEN AddError(st, atCallee(MsgArgCount(Len(args))))
    ELSE IF args[2].kind # "Constant" THEN AddError(st, atCallee(MsgNotLiteral))
    ELSE check_context(node, st)

(* a variant of validate without the test for a literal *)
validate_no_literal_check(node, st) ==
    LET func == node.a[1]
        args == node.b
        atCallee(msg) == Located(func.line, func.col, msg)
    IN
    IF Len(args) # 2 THEN AddError(st, atCallee(MsgArgCount(Len(args))))
    ELSE IF args[2].kind = "Call" /\ args[2].a[1].kind = "Attribute"
                                  /\ args[2].a[1].name = "format"
      THEN AddError(st, atCallee(MsgBadFormat))
    ELSE check_context(node, st)

(* the validation of a candidate translation call: visit_Call from the
   argument count check on *)
validate(node, st) ==
    LET func == node.a[1]
        args == node.b
        atCallee(msg) == Located(func.line, func.col, msg)
    IN
    IF Len(args) # 2 THEN AddError(st, atCallee(MsgArgCount(Len(args))))
    ELSE IF args[2].kind = "Call" /\ args[2].a[1].kind = "Attribute"
                                  /\ args[2].a[1].name = "format"
      THEN AddError(st, atCallee(MsgBadFormat))
    ELSE IF args[2].kind # "Constant"
      THEN AddError(st, atCallee(MsgNotLiteral))
    ELSE check_context(node, st)

(* ast.NodeVisitor.visit: dispatch on the node class *)
visit(node, st) ==
    IF st.raised # "none" THEN st
    ELSE IF node.kind = "Call" THEN visit_Call(node, st)
    ELSE generic_visit(node, st)

visit_each(nodes, st) ==
    IF nodes = <<>> \/ st.raised # "none" THEN st
    ELSE visit_each(Tail(nodes), visit(Head(nodes), st))

(* a variant of _iterate that descends into the keys of a Dict only *)
_iterate_keys_only(iterable, st) ==
    IF iterable = <<>> \/ st.raised # "none" THEN st
    ELSE
    LET item == Head(iterable)
        s1 == IF item.kind = "Call" THEN visit_Call(item, st) ELSE st
        s2 == IF item.kind \in {"List", "Tuple"} THEN _iterate(item.a, s1) ELSE s1
        s3 == IF item.kind = "Dict" THEN _iterate(item.a, s2) ELSE s2
        s4 == IF item.kind = "BinOp" THEN _iterate(item.a \o item.b, s3) ELSE s3
    IN _iterate(Tail(iterable), s4)

(* Analyzer._iterate *)
_iterate(iterable, st) ==
    IF iterable = <<>> \/ st.raised # "none" THEN st
    ELSE
    LET item == Head(iterable)
        s1 == IF item.kind = "Call" THEN visit_Call(item, st) ELSE st
        s2 == IF item.kind \in {"List", "Tuple"} THEN _iterate(item.a, s1) ELSE s1
        s3 == IF item.kind = "Dict" THEN _iterate(item.b, _iterate(item.a, s2)) ELSE s2
        s4 == IF item.kind = "BinOp" THEN _iterate(item.a \o item.b, s3) ELSE s3
    IN _iterate(Tail(iterable), s4)

(* Analyzer.visit_Call *)
visit_Call(node, st) ==
    IF st.raised # "none" THEN st
    ELSE
    LET func == node.a[1]
        s1 == _iterate(ValueOf(func), st)
        s2 == _iterate(node.b, s1)
        s3 == _iterate([i \in DOMAIN node.c |-> node.c[i].a[1]], s2)
    IN
    IF s3.raised # "none" THEN s3
    ELSE IF func.kind # "Name" \/ func.name # "_" THEN s3
    ELSE validate(node, s3)

(***************************************************************************)
(* popie/reporter.py                                                       *)
(***************************************************************************)
(* Reporter.add_strings: the pool grows by the texts of the new strings *)
add_strings(strings, new_strings) == strings \o [i \in DOMAIN new_strings |-> new_strings[i].text]

(***************************************************************************)
(* Text helpers of the catalog file: str.strip, str.startswith, readlines. *)
(***************************************************************************)
(* the characters of the model's alphabet for which str.isspace() holds *)
Whitespace == {" ", "\t", "\n", "\r", "\f"}

RECURSIVE lstrip(_)
lstrip(s) == IF s = <<>> \/ Head(s) \notin Whitespace THEN s ELSE lstrip(Tail(s))

RECURSIVE rstrip(_)
rstrip(s) ==
    IF s = <<>> \/ s[Len(s)] \notin Whitespace THEN s ELSE rstrip(SubSeq(s, 1, Len(s) - 1))

strip(s) == rstrip(lstrip(s))

startswith(s, prefix) == Len(s) >= Len(prefix) /\ SubSeq(s, 1, Len(prefix)) = prefix

MSGID == <<"m", "s", "g", "i", "d">>

MSGSTR == <<"m", "s", "g", "s", "t", "r">>

(* an Optional[str] *)
None == [some |-> FALSE, text |-> <<>>]

Some(text) == [some |-> TRUE, text |-> text]

RECURSIVE decode(_)
(* text mode with newline=None: "\r\n" and "\r" are read as "\n" *)
decode(bytes) ==
    IF bytes = <<>> THEN <<>>
    ELSE IF Head(bytes) = "\r"
      THEN <<"\n">> \o decode(IF Len(bytes) >= 2 /\ bytes[2] = "\n"
                                THEN SubSeq(bytes, 3, Len(bytes)) ELSE Tail(bytes))
    ELSE <<Head(bytes)>> \o decode(Tail(bytes))

(* handle.read() of a file that may not exist: None when it does not *)
read(file) == IF file.some THEN Some(decode(file.text)) ELSE None

RECURSIVE readlines(_)
(* the lines of a text, each with its line end *)
readlines(text) ==
    IF text = <<>> THEN <<>>
    ELSE LET ends == {i \in DOMAIN text : text[i] = "\n"}
             n == IF ends = {} THEN Len(text) ELSE CHOOSE i \in ends : \A j \in ends : i <= j
         IN <<SubSeq(text, 1, n)>> \o readlines(SubSeq(text, n + 1, Len(text)))

(***************************************************************************)
(* A dict (insertion ordered): a sequence of <<key, value>> entries with   *)
(* distinct keys.                                                          *)
(***************************************************************************)
Keys(d) == [i \in DOMAIN d |-> d[i][1]]

Values(d) == [i \in DOMAIN d |-> d[i][2]]

HasKey(d, k) == \E i \in DOMAIN d : d[i][1] = k

Get(d, k) == d[CHOOSE i \in DOMAIN d : d[i][1] = k][2]

(* d[k] = v: an existing key keeps its place *)
SetItem(d, k, v) ==
    IF HasKey(d, k) THEN [i \in DOMAIN d |-> IF d[i][1] = k THEN <<k, v>> ELSE d[i]]
    ELSE Append(d, <<k, v>>)

(***************************************************************************)
(* popie/popiefile.py                                                      *)
(***************************************************************************)
RECURSIVE load_lines(_, _, _)
(* the loop of PoPieFile.load_strings over the lines of the file *)
load_lines(lines, msgid, translations) ==
    IF lines = <<>> THEN translations
    ELSE
    LET line == strip(Head(lines))
        rest == Tail(lines)
    IN
    IF line = <<>> THEN load_lines(rest, msgid, translations)
    ELSE IF startswith(line, MSGID \o <<" ">>)
      THEN load_lines(rest, SubSeq(line, Len(MSGID) + 2, Len(line)), translations)
    ELSE IF startswith(line, MSGSTR)
      THEN LET msgstr == strip(SubSeq(line, Len(MSGSTR) + 1, Len(line)))
           IN load_lines(rest, msgid,
                         SetItem(translations, msgid,
                                 IF msgstr = <<>> THEN None ELSE Some(msgstr)))
    ELSE load_lines(rest, msgid, translations)

(* PoPieFile.load_strings *)
load_strings(file) ==
    IF ~file.some THEN <<>> ELSE load_lines(readlines(decode(file.text)), <<>>, <<>>)

RECURSIVE findall(_, _)
(* re.findall(r"{(.+?)}", text) from index i on *)
findall(text, i) ==
    IF i > Len(text) THEN <<>>
    ELSE
    LET closes == {j \in (i + 2)..Len(text) :
                      text[j] = "}" /\ \A k \in (i + 1)..(j - 1) : text[k] # "\n"}
    IN
    IF text[i] = "{" /\ closes # {}
      THEN LET j == CHOOSE x \in closes : \A y \in closes : x <= y
           IN <<SubSeq(text, i + 1, j - 1)>> \o findall(text, j + 1)
      ELSE findall(text, i + 1)

RECURSIVE join(_, _)
(* sep.join(items) *)
join(sep, items) ==
    IF items = <<>> THEN <<>>
    ELSE IF Len(items) = 1 THEN items[1]
    ELSE items[1] \o sep \o join(sep, Tail(items))

MsgBadVariables(key, value_variables) ==
    <<"Translation for '">> \o key \o <<"' contains bad variables: ">>
    \o join(<<", ">>, value_variables) \o <<".">>

RECURSIVE check_strings(_)
(* a variant of check_strings that compares the lists of placeholders, not
   their sets *)
check_strings_as_lists(translations) ==
    IF translations = <<>> THEN <<>>
    ELSE
    LET key == Head(translations)[1]
        value == Head(translations)[2]
        key_variables == findall(key, 1)
        value_variables == findall(value.text, 1)
    IN
    (IF value.some /\ key_variables # value_variables
       THEN <<MsgBadVariables(key, value_variables)>>
       ELSE <<>>)
    \o check_strings(Tail(translations))

(* PoPieFile.check_strings: the errors of the translations *)
check_strings(translations) ==
    IF translations = <<>> THEN <<>>
    ELSE
    LET key == Head(translations)[1]
        value == Head(translations)[2]
        key_variables == findall(key, 1)
        value_variables == findall(value.text, 1)
    IN
    (IF value.some /\ Range(key_variables) # Range(value_variables)
       THEN <<MsgBadVariables(key, value_variables)>>
       ELSE <<>>)
    \o check_strings(Tail(translations))

(* PoPieFile.__init__ on a path whose file is `file` *)
PoPieFile(filename, file) ==
    [filename |-> filename,
     translations |-> load_strings(file),
     errors |-> check_strings(load_strings(file)),
     before |-> read(file),
     after |-> [cached |-> FALSE, value |-> None]]

RECURSIVE update_loop(_, _, _)
(* the loop of PoPieFile.update over reporter.strings *)
update_loop(strings, old, new) ==
    IF strings = <<>> THEN new
    ELSE LET string == Head(strings)
         IN update_loop(Tail(strings), old,
                        SetItem(new, string,
                                IF HasKey(old, string) THEN Get(old, string) ELSE None))

(* a variant of update that starts from the old translations *)
update_keep_old(translations, strings) == update_loop(strings, translations, translations)

(* PoPieFile.update: the new translations *)
update(translations, strings) == update_loop(strings, translations, <<>>)

RECURSIVE save_loop(_, _)
(* a variant of the loop of save that writes the blank line after every
   record, the last included *)
save_loop_blank_after_each(translations, i) ==
    IF i > Len(translations) THEN <<>>
    ELSE
    LET msgid == translations[i][1]
        msgstr == translations[i][2]
    IN
    MSGID \o <<" ">> \o msgid \o <<"\n">>
    \o (IF msgstr.some THEN MSGSTR \o <<" ">> \o msgstr.text \o <<"\n">>
        ELSE MSGSTR \o <<"\n">>)
    \o <<"\n">>
    \o save_loop(translations, i + 1)

(* the loop of PoPieFile.save from entry i on *)
save_loop(translations, i) ==
    IF i > Len(translations) THEN <<>>
    ELSE
    LET msgid == translations[i][1]
        msgstr == translations[i][2]
    IN
    MSGID \o <<" ">> \o msgid \o <<"\n">>
    \o (IF msgstr.some THEN MSGSTR \o <<" ">> \o msgstr.text \o <<"\n">>
        ELSE MSGSTR \o <<"\n">>)
    \o (IF i < Len(translations) THEN <<"\n">> ELSE <<>>)
    \o save_loop(translations, i + 1)

(* PoPieFile.save: the file written *)
save(translations) == Some(save_loop(translations, 1))

(* PoPieFile._get_after under functools.lru_cache: the object afterwards;
   the file is read on the first call only *)
_get_after(po, file) ==
    IF po.after.cached THEN po
    ELSE [po EXCEPT !.after = [cached |-> TRUE, value |-> read(file)]]

(* PoPieFile.is_updated: the answer *)
is_updated(po, file) == po.before # _get_after(po, file).after.value

(***************************************************************************)
(* The source files the analyzer is run on.  A file is one statement, a    *)
(* translation call (a "leaf") inside up to MaxDepth enclosing expressions,*)
(* optionally followed by a second statement on the next line.  Columns    *)
(* are those of the source text with its arguments padded to fixed widths. *)
(***************************************************************************)
MaxDepth == 2

Text == <<"T", "e", "x", "t">>

StrTexts ==
    { Text, <<>>, <<" ", "T">>, <<"T", " ">>, <<"\t", "T">>, <<"T", "\t">>,
      <<"T", "\n", "x">>, <<" ", "\n", " ">>, <<"T", "\f">>, <<"T">>, <<"{", "s", "}">> }

Ids == {"ctx", "itx", "utx", "gtx", "tc", "foo"}

FirstArgs ==
    [k : {"Name"}, obj : {""}, id : Ids]
    \cup [k : {"Attr"}, obj : {"self", "obj"}, id : Ids]
    \cup [k : {"Attr2", "AttrCall"}, obj : {"self"}, id : {"ctx"}]
    \cup [k : {"Const", "Call", "Starred", "TCall"}, obj : {""}, id : {""}]

SecondArgs ==
    [k : {"str"}, text : StrTexts]
    \cup [k : {"int", "name", "format", "nameformat", "call", "binop", "tcallformat",
               "formatkw"}, text : {<<>>}]

CtxArg == [k |-> "Name", obj |-> "", id |-> "ctx"]

StrArg(text) == [k |-> "str", text |-> text]

LeafSpecs ==
    [first : FirstArgs, second : SecondArgs, extra : {"none"}]
    \cup [first : {CtxArg, [k |-> "Name", obj |-> "", id |-> "foo"]},
          second : {StrArg(Text), StrArg(<<" ", "T">>), [k |-> "name", text |-> <<>>]},
          extra : {"arg0", "arg1", "arg3", "arg3call", "kw", "kwcall"}]

(* expressions without any translation call: "{s}".format(s="Text"), ... *)
PlainLeaves ==
    [first : {CtxArg},
     second : {[k |-> "format", text |-> <<>>], [k |-> "nameformat", text |-> <<>>],
               [k |-> "call", text |-> <<>>]},
     extra : {"plain"}]

(* the leaves that are put at every depth *)
CoreLeaves ==
    [first : {CtxArg}, second : {StrArg(Text)}, extra : {"none", "kwcall"}]
    \cup [first : {[k |-> "Name", obj |-> "", id |-> "foo"], [k |-> "Const", obj |-> "", id |-> ""]},
          second : {StrArg(Text)}, extra : {"none"}]
    \cup [first : {CtxArg}, second : {StrArg(<<>>), [k |-> "format", text |-> <<>>]},
          extra : {"none"}]
    \cup PlainLeaves

Wrappers ==
    {"List", "Tuple", "Set", "DictKey", "DictVal", "Arg", "Kw", "BinL", "BinR",
     "Recv", "RecvKw", "RecvCalls", "AttrOf", "UnaryOp", "Callee", "DictEntries",
     "BinCalls"}

(* _(ctx, "A") at the given place *)
GoodCall(id, text, line, col) ==
    Call(Name("_", line, col),
         <<Name(id, line, col + 2), Constant("str", text, line, col + 7)>>,
         <<>>, line, col)

BuildFirst(f, line, col) ==
    CASE f.k = "Name" -> Name(f.id, line, col)
      [] f.k = "Attr" -> Attribute(Name(f.obj, line, col), f.id, line, col)
      [] f.k = "Attr2" ->
           Attribute(Attribute(Name(f.obj, line, col), "bot", line, col), f.id, line, col)
      [] f.k = "AttrCall" ->
           Attribute(Call(Name("get", line, col), <<>>, <<>>, line, col), f.id, line, col)
      [] f.k = "Const" -> Constant("int", <<"1">>, line, col)
      [] f.k = "Call" -> Call(Name("get", line, col), <<>>, <<>>, line, col)
      [] f.k = "Starred" -> Unary("Starred", Name("args", line, col + 1), line, col)
      [] f.k = "TCall" -> GoodCall("ctx", <<"A">>, line, col)

FormatCall(receiver, keywords, line, col) ==
    Call(Attribute(receiver, "format", line, col), <<>>, keywords, line, col)

BuildSecond(s, line, col) ==
    CASE s.k = "str" -> Constant("str", s.text, line, col)
      [] s.k = "int" -> Constant("int", <<"1">>, line, col)
      [] s.k = "name" -> Name("text", line, col)
      [] s.k = "format" ->
           FormatCall(Constant("str", <<"{", "s", "}">>, line, col),
                      <<keyword("s", Constant("str", Text, line, col + 14), line, col + 12)>>,
                      line, col)
      [] s.k = "nameformat" -> FormatCall(Name("text", line, col), <<>>, line, col)
      [] s.k = "call" ->
           Call(Name("get", line, col), <<Constant("str", Text, line, col + 4)>>, <<>>, line, col)
      [] s.k = "binop" ->
           BinOp(Constant("str", <<"T">>, line, col), Constant("str", <<"x">>, line, col + 6),
                 line, col)
      [] s.k = "tcallformat" -> FormatCall(GoodCall("ctx", <<"A">>, line, col), <<>>, line, col)
      [] s.k = "formatkw" ->
           FormatCall(Constant("str", <<"{", "s", "}">>, line, col),
                      <<keyword("s", GoodCall("ctx", <<"A">>, line, col + 14), line, col + 12)>>,
                      line, col)

(* the translation call of a leaf: _(first, second ...) *)
BuildLeaf(leaf, line, col) ==
    LET callee == Name("_", line, col)
        first == BuildFirst(leaf.first, line, col + 2)
        second == BuildSecond(leaf.second, line, col + 10)
        third == Constant("str", <<"x">>, line, col + 40)
        nested == GoodCall("utx", <<"B">>, line, col + 40)
    IN
    CASE leaf.extra = "none" -> Call(callee, <<first, second>>, <<>>, line, col)
      [] leaf.extra = "plain" -> BuildSecond(leaf.second, line, col)
      [] leaf.extra = "arg0" -> Call(callee, <<>>, <<>>, line, col)
      [] leaf.extra = "arg1" -> Call(callee, <<BuildSecond(leaf.second, line, col + 2)>>, <<>>, line, col)
      [] leaf.extra = "arg3" -> Call(callee, <<first, second, third>>, <<>>, line, col)
      [] leaf.extra = "arg3call" -> Call(callee, <<first, second, nested>>, <<>>, line, col)
      [] leaf.extra = "kw" ->
           Call(callee, <<first, second>>, <<keyword("key", third, line, col + 36)>>, line, col)
      [] leaf.extra = "kwcall" ->
           Call(callee, <<first, second>>, <<keyword("key", nested, line, col + 36)>>, line, col)

RECURSIVE LastLine(_)
RECURSIVE LastLineOf(_)
(* the last line of the source text of a node *)
LastLine(node) ==
    LET below == LastLineOf(Children(node))
    IN IF below > node.line THEN below ELSE node.line

LastLineOf(nodes) ==
    IF nodes = <<>> THEN 0
    ELSE LET h == LastLine(Head(nodes))
             t == LastLineOf(Tail(nodes))
         IN IF h > t THEN h ELSE t

(* the number of characters a wrapper puts before the wrapped expression *)
Prefix(w) ==
    CASE w \in {"List", "Tuple", "Set", "DictKey", "UnaryOp", "DictEntries"} -> 1
      [] w \in {"BinL", "Recv", "RecvKw", "RecvCalls", "AttrOf", "Callee", "BinCalls"} -> 0
      [] w = "Arg" -> 4
      [] w \in {"DictVal", "BinR"} -> 6
      [] w = "Kw" -> 12

(* the expression that wraps `inner` (which starts at col + Prefix(w)) *)
Wrap(w, inner, line, col) ==
    CASE w = "List" -> Elts("List", <<inner>>, line, col)
      [] w = "Tuple" -> Elts("Tuple", <<inner>>, line, col)
      [] w = "Set" -> Elts("Set", <<inner>>, line, col)
      [] w = "DictKey" ->
           Dict(<<inner>>, <<Constant("str", <<"v">>, line, col + 60)>>, line, col)
      [] w = "DictVal" ->
           Dict(<<Constant("str", <<"k">>, line, col + 1)>>, <<inner>>, line, col)
      [] w = "Arg" -> Call(Name("get", line, col), <<inner>>, <<>>, line, col)
      [] w = "Kw" ->
           Call(Attribute(Name("obj", line, col), "get", line, col), <<>>,
                <<keyword("key", inner, line, col + 8)>>, line, col)
      [] w = "BinL" -> BinOp(inner, Constant("str", <<"x">>, line, col + 60), line, col)
      [] w = "BinR" -> BinOp(Constant("str", <<"x">>, line, col), inner, line, col)
      [] w = "Recv" -> FormatCall(inner, <<>>, line, col)
      [] w = "RecvKw" ->
           (* (inner).format(
                  s="s") *)
           LET next == LastLine(inner) + 1
           IN FormatCall(inner, <<keyword("s", Constant("str", <<"s">>, next, 6), next, 4)>>,
                         line, col)
      [] w = "RecvCalls" ->
           (* (inner).format(
                  _(gtx, "P"), s=_(utx, "K")) *)
           LET next == LastLine(inner) + 1
           IN Call(Attribute(inner, "format", line, col),
                   <<GoodCall("gtx", <<"P">>, next, 4)>>,
                   <<keyword("s", GoodCall("utx", <<"K">>, next, 19), next, 17)>>,
                   line, col)
      [] w = "DictEntries" ->
           (* {inner:
                  _(utx, "V"), _(gtx, "L"): _(utx, "W")} *)
           LET next == LastLine(inner) + 1
           IN Dict(<<inner, GoodCall("gtx", <<"L">>, next, 17)>>,
                   <<GoodCall("utx", <<"V">>, next, 4), GoodCall("utx", <<"W">>, next, 30)>>,
                   line, col)
      [] w = "BinCalls" ->
           (* (inner) +
                  _(gtx, "R") *)
           BinOp(inner, GoodCall("gtx", <<"R">>, LastLine(inner) + 1, 4), line, col)
      [] w = "AttrOf" -> Attribute(inner, "text", line, col)
      [] w = "UnaryOp" -> Unary("UnaryOp", inner, line, col)
      [] w = "Callee" -> Call(inner, <<>>, <<>>, line, col)

RECURSIVE Build(_, _, _, _)
(* the leaf inside the wrappers of `path`, outermost first *)
Build(path, leaf, line, col) ==
    IF path = <<>> THEN BuildLeaf(leaf, line, col)
    ELSE Wrap(Head(path), Build(Tail(path), leaf, line, col + Prefix(Head(path))), line, col)

RECURSIVE Paths(_)
Paths(n) ==
    IF n = 0 THEN {<<>>}
    ELSE Paths(n - 1) \cup {<<w>> \o p : w \in Wrappers, p \in {q \in Paths(n - 1) : Len(q) = n - 1}}

Statement(expr, line) == Node("Expr", "", NoVal, line, 0, <<expr>>, <<>>, <<>>)

FollowCall(line) == GoodCall("utx", <<"N">>, line, 0)

(* the source file of one expression statement, with or without the
   statement that follows it *)
SourceFile(expr, follow) ==
    IF follow
      THEN Module(<<Statement(expr, 1),
                    Statement(FollowCall(LastLine(expr) + 1), LastLine(expr) + 1)>>)
    ELSE Module(<<Statement(expr, 1)>>)

(***************************************************************************)
(* The catalog files and string pools the catalog is run on.               *)
(***************************************************************************)
MaxPool == 2

MaxCalls == 3

MaxFiles == 2

MaxRuns == 2

Langs == Range(LANGUAGES)

(* texts of translation calls; the analyzer decides which reach the pool *)
CatalogTexts == { <<"T">>, <<"U">>, <<"T", "\f">>, <<" ", "T">>, <<"{", "a", "}">> }

AnalyzerAccepts(text) ==
    LET st == visit(Module(<<Statement(GoodCall("ctx", text, 1, 0), 1)>>), NewAnalyzer)
    IN st.raised = "none" /\ Len(st.strings) = 1 /\ st.strings[1].text = text

PoolTexts == {text \in CatalogTexts : AnalyzerAccepts(text)}

RECURSIVE SeqsUpTo(_, _)
(* the sequences over S of length at most n *)
SeqsUpTo(S, n) ==
    IF n = 0 THEN {<<>>}
    ELSE SeqsUpTo(S, n - 1)
         \cup {Append(q, x) : q \in {r \in SeqsUpTo(S, n - 1) : Len(r) = n - 1}, x \in S}

Pools == SeqsUpTo(PoolTexts, MaxPool)

(* the text of a catalog file from its lines *)
FileOf(lines) == Some(join(<<>>, [i \in DOMAIN lines |-> lines[i] \o <<"\n">>]))

Record(key, value) == <<MSGID \o <<" ">> \o key, MSGSTR \o <<" ">> \o value>>

Untranslated(key) == <<MSGID \o <<" ">> \o key, MSGSTR>>

(* catalog files found on disk: none, empty, as written by save, as written
   by the tests' fill_file (a blank line after every record), with a
   translation whose placeholder differs, with the same placeholders in
   another order and repeated, with three records of which the first and
   the last have placeholders that differ, and with a msgstr line only *)
InitialFiles ==
    { None,
      Some(<<>>),
      FileOf(Record(<<"T">>, <<"X">>)),
      FileOf(Untranslated(<<"T">>)),
      FileOf(Record(<<"T">>, <<"X">>) \o <<<<>>>>),
      FileOf(Record(<<"U">>, <<"Y">>) \o <<<<>>>> \o Record(<<"T">>, <<"X">>)),
      FileOf(Record(<<"{", "a", "}">>, <<"{", "b", "}">>)),
      FileOf(Record(<<"{", "a", "}", "{", "b", "}">>,
                    <<"{", "b", "}", "{", "a", "}", "{", "a", "}">>)),
      FileOf(Record(<<"{", "a", "}">>, <<"{", "c", "}", " ", "{", "b", "}">>)
             \o Untranslated(<<"{", "b", "}">>)
             \o Record(<<"T">>, <<"{", "a", "}">>)),
      FileOf(<<MSGSTR \o <<" ", "X">>>>) }

RunFiles ==
    { None,
      FileOf(Record(<<"T">>, <<"X">>)),
      FileOf(Record(<<"{", "a", "}">>, <<"{", "b", "}">>)) }

(* the source files of a directory: one translation call each *)
RunLeaves ==
    [first : {CtxArg}, second : {StrArg(<<"T">>), StrArg(<<"T", "\f">>), StrArg(<<>>)},
     extra : {"none"}]
    \cup [first : {[k |-> "Name", obj |-> "", id |-> "tc"],
                   [k |-> "Name", obj |-> "", id |-> "foo"]},
          second : {StrArg(<<"{", "a", "}">>)}, extra : {"none"}]

RunTrees == {SourceFile(Build(<<>>, l, 1, 0), FALSE) : l \in RunLeaves}

Directories == SeqsUpTo(RunTrees, MaxFiles) \ {<<>>}

(***************************************************************************)
(* State                                                                   *)
(***************************************************************************)
VARIABLES
    tree,           \* the parsed source file handed to Analyzer.visit
    analyzer,       \* the Analyzer: strings, errors, warnings, exception raised
    pc,             \* the position in the program
    disk,           \* the catalog file of every language: None when absent
    po,             \* the PoPieFile object
    reporter,       \* Reporter.strings, the pool
    calls,          \* the calls made on PoPieFile so far
    answer,         \* what the last is_updated() returned
    sources,        \* the parsed source files of the directory, sorted
    file_i,         \* run: index of the next source file
    error_count,    \* run: error_count
    lang_i,         \* run: index of the language being synchronised
    updated_files,  \* run: updated_files
    runs            \* the number of the current run over the directory

analyzerVars == <<tree, analyzer>>

catalogVars == <<disk, po, reporter, calls, answer>>

runVars == <<sources, file_i, error_count, lang_i, updated_files, runs>>

vars == <<tree, analyzer, pc, disk, po, reporter, calls, answer,
          sources, file_i, error_count, lang_i, updated_files, runs>>

NoFiles == [l \in Langs |-> None]

NoCatalog ==
    /\ disk = NoFiles
    /\ po = PoPieFile("cs", None)
    /\ reporter = <<>>
    /\ calls = <<>>
    /\ answer = FALSE

NoRun ==
    /\ sources = <<>>
    /\ file_i = 0
    /\ error_count = 0
    /\ lang_i = 0
    /\ updated_files = 0
    /\ runs = 0

NoAnalysis ==
    /\ tree = Module(<<>>)
    /\ analyzer = NewAnalyzer

(***************************************************************************)
(* Spec: the analysis of one source file.                                  *)
(***************************************************************************)
Init ==
    /\ \/ \E p \in Paths(1), l \in LeafSpecs, follow \in BOOLEAN :
             tree = SourceFile(Build(p, l, 1, 0), follow)
       \/ \E p \in Paths(MaxDepth), l \in CoreLeaves, follow \in BOOLEAN :
             tree = SourceFile(Build(p, l, 1, 0), follow)
    /\ analyzer = NewAnalyzer
    /\ pc = "init"
    /\ NoCatalog
    /\ NoRun

(* analyzer = Analyzer(py_file); analyzer.visit(tree) *)
Visit ==
    /\ pc = "init"
    /\ analyzer' = visit(tree, analyzer)
    /\ pc' = "done"
    /\ UNCHANGED <<tree, catalogVars, runVars>>

Next == Visit

Spec == Init /\ [][Next]_vars

(***************************************************************************)
(* SpecCatalog: one catalog file and the calls made on PoPieFile objects   *)
(* constructed on its path, with one pool.                                 *)
(***************************************************************************)
CatalogInit ==
    /\ pc = "catalog"
    /\ \E file \in InitialFiles :
          /\ disk = [l \in Langs |-> IF l = "cs" THEN file ELSE None]
          /\ po = PoPieFile("cs", file)
    /\ reporter \in Pools
    /\ calls = <<>>
    /\ answer = FALSE
    /\ NoAnalysis
    /\ NoRun

Called(name) ==
    /\ pc = "catalog"
    /\ Len(calls) < MaxCalls
    /\ calls' = Append(calls, name)
    /\ UNCHANGED <<pc, reporter, analyzerVars, runVars>>

(* pofile = PoPieFile(po) *)
Construct ==
    /\ Called("construct")
    /\ po' = PoPieFile(po.filename, disk[po.filename])
    /\ UNCHANGED <<disk, answer>>

(* pofile.update(reporter) *)
Update ==
    /\ Called("update")
    /\ po' = [po EXCEPT !.translations = update(@, reporter)]
    /\ UNCHANGED <<disk, answer>>

(* pofile.save() *)
Save ==
    /\ Called("save")
    /\ disk' = [disk EXCEPT ![po.filename] = save(po.translations)]
    /\ UNCHANGED <<po, answer>>

(* pofile.is_updated() *)
IsUpdated ==
    /\ Called("is_updated")
    /\ answer' = is_updated(po, disk[po.filename])
    /\ po' = _get_after(po, disk[po.filename])
    /\ UNCHANGED disk

CatalogNext == Construct \/ Update \/ Save \/ IsUpdated

SpecCatalog == CatalogInit /\ [][CatalogNext]_vars

(***************************************************************************)
(* SpecRun: run(directory), once and again with the same source files.     *)
(***************************************************************************)
RunInit ==
    /\ pc = "scan"
    /\ sources \in Directories
    /\ disk \in [Langs -> RunFiles]
    /\ file_i = 1
    /\ error_count = 0
    /\ reporter = <<>>
    /\ lang_i = 0
    /\ updated_files = 0
    /\ runs = 1
    /\ po = PoPieFile("cs", None)
    /\ calls = <<>>
    /\ answer = FALSE
    /\ NoAnalysis

(* the body of `for py_file in py_files`; an exception ends the process *)
AnalyzeFile ==
    /\ pc = "scan"
    /\ file_i <= Len(sources)
    /\ LET done == visit(sources[file_i], NewAnalyzer)
       IN /\ tree' = sources[file_i]
          /\ analyzer' = done
          /\ IF done.raised # "none"
               THEN /\ pc' = "raised"
                    /\ UNCHANGED <<error_count, reporter, file_i>>
               ELSE /\ pc' = "scan"
                    /\ error_count' = error_count + Len(done.errors)
                    /\ reporter' = IF done.strings # <<>>
                                     THEN add_strings(reporter, done.strings)
                                     ELSE reporter
                    /\ file_i' = file_i + 1
    /\ UNCHANGED <<disk, po, calls, answer, sources, lang_i, updated_files, runs>>

(* if error_count: return ("found errors", error_count) *)
ReturnErrors ==
    /\ pc = "scan"
    /\ file_i > Len(sources)
    /\ error_count > 0
    /\ pc' = "found errors"
    /\ UNCHANGED <<analyzerVars, catalogVars, runVars>>

(* po_directory.mkdir(exist_ok=True); the first `for lang in LANGUAGES` *)
BeginLanguages ==
    /\ pc = "scan"
    /\ file_i > Len(sources)
    /\ error_count = 0
    /\ pc' = "construct"
    /\ lang_i' = 1
    /\ updated_files' = 0
    /\ UNCHANGED <<analyzerVars, catalogVars, sources, file_i, error_count, runs>>

(* pofile = PoPieFile(po) *)
RunConstruct ==
    /\ pc = "construct"
    /\ po' = PoPieFile(LANGUAGES[lang_i], disk[LANGUAGES[lang_i]])
    /\ calls' = <<"construct">>
    /\ pc' = "update"
    /\ UNCHANGED <<analyzerVars, disk, reporter, answer, runVars>>

(* pofile.update(reporter) *)
RunUpdate ==
    /\ pc = "update"
    /\ po' = [po EXCEPT !.translations = update(@, reporter)]
    /\ calls' = Append(calls, "update")
    /\ pc' = "save"
    /\ UNCHANGED <<analyzerVars, disk, reporter, answer, runVars>>

(* pofile.save() *)
RunSave ==
    /\ pc = "save"
    /\ disk' = [disk EXCEPT ![po.filename] = save(po.translations)]
    /\ calls' = Append(calls, "save")
    /\ pc' = "is_updated"
    /\ UNCHANGED <<analyzerVars, po, reporter, answer, runVars>>

(* if pofile.is_updated(): updated_files += 1; then the next language, or
   return ("updated files", updated_files) *)
RunIsUpdated ==
    /\ pc = "is_updated"
    /\ answer' = is_updated(po, disk[po.filename])
    /\ po' = _get_after(po, disk[po.filename])
    /\ calls' = Append(calls, "is_updated")
    /\ updated_files' = IF answer' THEN updated_files + 1 ELSE updated_files
    /\ lang_i' = lang_i + 1
    /\ pc' = IF lang_i < Len(LANGUAGES) THEN "construct" ELSE "updated files"
    /\ UNCHANGED <<analyzerVars, disk, reporter, sources, file_i, error_count, runs>>

(* run(directory) is called again: the next invocation on the same sources *)
RunAgain ==
    /\ pc \in {"found errors", "updated files"}
    /\ runs < MaxRuns
    /\ runs' = runs + 1
    /\ pc' = "scan"
    /\ file_i' = 1
    /\ error_count' = 0
    /\ reporter' = <<>>
    /\ lang_i' = 0
    /\ updated_files' = 0
    /\ UNCHANGED <<analyzerVars, disk, po, calls, answer, sources>>

RunNext ==
    \/ AnalyzeFile
    \/ ReturnErrors
    \/ BeginLanguages
    \/ RunConstruct
    \/ RunUpdate
    \/ RunSave
    \/ RunIsUpdated
    \/ RunAgain

SpecRun == RunInit /\ [][RunNext]_vars

(***************************************************************************)
(* What a tree contains, read off the tree itself (not the analyzer's      *)
(* traversal): the candidate translation calls and where they are placed.  *)
(***************************************************************************)
RECURSIVE AllNodes(_)
RECURSIVE AllNodesOf(_)
(* every node of the tree, in source order *)
AllNodes(node) == <<node>> \o AllNodesOf(Children(node))

AllNodesOf(nodes) ==
    IF nodes = <<>> THEN <<>> ELSE AllNodes(Head(nodes)) \o AllNodesOf(Tail(nodes))

IsCandidate(node) ==
    node.kind = "Call" /\ node.a[1].kind = "Name" /\ node.a[1].name = "_"

Candidates(node) == SelectSeq(AllNodes(node), IsCandidate)

RECURSIVE Slots(_)
(* the <<parent class, field>> places on the way from the root to its
   candidate calls *)
Slots(node) ==
    UNION { UNION { IF Candidates(node[f][i]) # <<>>
                      THEN {<<node.kind, f>>} \cup Slots(node[f][i])
                      ELSE {} : i \in DOMAIN node[f] } : f \in {"a", "b", "c"} }

(* statement, list / tuple / dict element or key, positional or keyword
   argument of a call, operand of a binary operation *)
PlainSlots ==
    { <<"Module", "a">>, <<"Expr", "a">>, <<"List", "a">>, <<"Tuple", "a">>,
      <<"Dict", "a">>, <<"Dict", "b">>, <<"Call", "b">>, <<"Call", "c">>,
      <<"keyword", "a">>, <<"BinOp", "a">>, <<"BinOp", "b">> }

At(item, node) == item.line = node.line /\ item.col = node.col

Texts(items) == [i \in DOMAIN items |-> items[i].text]

(* the tree holds one translation call and it is in one of the plain places *)
OneCallPlainlyPlaced ==
    /\ Len(Candidates(tree)) = 1
    /\ Slots(tree) \subseteq PlainSlots

TheCall == Candidates(tree)[1]

(***************************************************************************)
(* C1: a tree whose only translation call is _(ctx, "Text"), placed as a   *)
(* statement, a list/tuple/dict element or key, a positional or keyword    *)
(* argument, a binary operand, or nested inside those, leaves exactly one  *)
(* string, "Text", and no error.                                           *)
(***************************************************************************)
C1_Case ==
    /\ pc = "done"
    /\ OneCallPlainlyPlaced
    /\ TheCall.c = <<>>
    /\ Len(TheCall.b) = 2
    /\ TheCall.b[1].kind = "Name" /\ TheCall.b[1].name = "ctx"
    /\ TheCall.b[2].kind = "Constant" /\ TheCall.b[2].val = [type |-> "str", text |-> Text]

C1_OneText ==
    C1_Case =>
        /\ analyzer.raised = "none"
        /\ Texts(analyzer.strings) = <<Text>>
        /\ analyzer.errors = <<>>

C1_Witness ==
    /\ C1_Case
    /\ {<<"Dict", "b">>, <<"keyword", "a">>} \subseteq Slots(tree)
    /\ Texts(analyzer.strings) = <<Text>>

(***************************************************************************)
(* C2: every call to `_` anywhere in the tree contributes a string or a    *)
(* diagnostic (no such call is silently skipped), stated for the           *)
(* traversals that complete.                                               *)
(***************************************************************************)
Contributes(call) ==
    \/ \E i \in DOMAIN analyzer.errors :
          \/ At(analyzer.errors[i], call.a[1])
          \/ Len(call.b) >= 1 /\ At(analyzer.errors[i], call.b[1])
    \/ \E i \in DOMAIN analyzer.warnings : At(analyzer.warnings[i], call.a[1])
    \/ Len(call.b) >= 2 /\ \E i \in DOMAIN analyzer.strings :
                              At(analyzer.strings[i], call.b[2])

C2_EveryCallValidated ==
    (pc = "done" /\ analyzer.raised = "none") =>
        \A i \in DOMAIN Candidates(tree) : Contributes(Candidates(tree)[i])

(***************************************************************************)
(* C3: Analyzer.visit never raises on a malformed translation call: the    *)
(* traversal completes, the condition is a collected diagnostic, and the   *)
(* translation call of the following statement is still extracted.         *)
(***************************************************************************)
C3_NeverRaises ==
    pc = "done" =>
        /\ analyzer.raised = "none"
        /\ (Len(tree.a) = 2 /\ Slots(tree) \subseteq PlainSlots) =>
               \E i \in DOMAIN analyzer.strings : analyzer.strings[i].text = <<"N">>

(***************************************************************************)
(* C9: a 2-argument translation call with a valid literal is accepted      *)
(* without diagnostic iff its first argument is ctx, utx, gtx or           *)
(* self.ctx, self.utx, self.gtx; `tc` is accepted with a warning; every    *)
(* other name and every other attribute access gives an error and no       *)
(* string.                                                                 *)
(***************************************************************************)
AcceptedContexts == {"ctx", "utx", "gtx"}

C9_Case ==
    /\ pc = "done"
    /\ tree.a = <<Statement(TheCall, 1)>>
    /\ TheCall.c = <<>>
    /\ Len(TheCall.b) = 2
    /\ TheCall.b[2].kind = "Constant" /\ TheCall.b[2].val = [type |-> "str", text |-> Text]

C9_ContextNames ==
    C9_Case =>
        LET first == TheCall.b[1]
            isName == first.kind = "Name"
            isAttr == first.kind = "Attribute"
            good == \/ isName /\ first.name \in AcceptedContexts
                    \/ /\ isAttr /\ first.name \in AcceptedContexts
                       /\ first.a[1].kind = "Name" /\ first.a[1].name = "self"
            clean == /\ analyzer.raised = "none"
                     /\ Texts(analyzer.strings) = <<Text>>
                     /\ analyzer.errors = <<>>
                     /\ analyzer.warnings = <<>>
        IN  /\ good <=> clean
            /\ (isName /\ first.name = "tc") =>
                   /\ analyzer.raised = "none"
                   /\ Texts(analyzer.strings) = <<Text>>
                   /\ analyzer.errors = <<>>
                   /\ Len(analyzer.warnings) = 1
            /\ ((isName \/ isAttr) /\ ~good /\ ~(isName /\ first.name = "tc")) =>
                   /\ analyzer.raised = "none"
                   /\ analyzer.strings = <<>>
                   /\ Len(analyzer.errors) = 1

(***************************************************************************)
(* C10: a translation call whose second argument is a call of an           *)
(* attribute named `format` yields no string and exactly one error, the    *)
(* "Bad '.format()' placement" error at the callee `_`; a `.format()` call *)
(* that is not inside a translation call yields no error.                  *)
(***************************************************************************)
IsFormatCall(node) ==
    node.kind = "Call" /\ node.a[1].kind = "Attribute" /\ node.a[1].name = "format"

C10_Case ==
    /\ pc = "done"
    /\ OneCallPlainlyPlaced
    /\ Len(TheCall.b) = 2
    /\ IsFormatCall(TheCall.b[2])

C10_PlainCase ==
    /\ pc = "done"
    /\ Candidates(tree) = <<>>
    /\ \E i \in DOMAIN AllNodes(tree) : IsFormatCall(AllNodes(tree)[i])

C10_BadFormat ==
    /\ C10_Case =>
          /\ analyzer.raised = "none"
          /\ analyzer.strings = <<>>
          /\ analyzer.errors =
                <<Located(TheCall.a[1].line, TheCall.a[1].col, MsgBadFormat)>>
    /\ C10_PlainCase => (analyzer.errors = <<>> /\ analyzer.raised = "none")

C10_Witness ==
    /\ C10_Case
    /\ TheCall.b[1].kind = "Constant"
    /\ Len(analyzer.errors) = 1 /\ analyzer.errors[1].text = MsgBadFormat

(***************************************************************************)
(* C4: update(pool) rebuilds the translations: the keys are the distinct   *)
(* texts of the pool in order of first occurrence; a key of the old        *)
(* catalog keeps its old value, a new key maps to None, and every old key  *)
(* that is not in the pool is dropped.                                     *)
(***************************************************************************)
RECURSIVE Distinct(_)
(* the elements of a sequence in order of first occurrence *)
Distinct(s) ==
    IF s = <<>> THEN <<>>
    ELSE LET front == Distinct(SubSeq(s, 1, Len(s) - 1))
         IN IF s[Len(s)] \in Range(front) THEN front ELSE Append(front, s[Len(s)])

LastCall == IF calls = <<>> THEN "" ELSE calls[Len(calls)]

Rebuilt(old, new, pool) ==
    /\ Keys(new) = Distinct(pool)
    /\ \A i \in DOMAIN new :
          new[i][2] = IF HasKey(old, new[i][1]) THEN Get(old, new[i][1]) ELSE None

C4_UpdateRebuilds ==
    [][(calls' # calls /\ calls'[Len(calls')] = "update")
          => Rebuilt(po.translations, po'.translations, reporter)]_vars

C4_Witness ==
    /\ calls = <<"update">>
    /\ reporter = << <<"T">>, <<"T">> >>
    /\ HasKey(load_strings(disk["cs"]), <<"U">>)
    /\ po.translations = << << <<"T">>, Some(<<"X">>) >> >>

(***************************************************************************)
(* C5: running construct -> update(pool) -> save a second time with the    *)
(* same pool leaves every catalog file as the first run wrote it, and      *)
(* is_updated() is false in the second run.                                *)
(***************************************************************************)
C5_SecondRunIdentical ==
    [][runs >= 2 => (disk' = disk /\ (pc = "is_updated" => ~answer'))]_vars

(***************************************************************************)
(* C6: after update(pool), save() followed by constructing a new PoPieFile *)
(* on the same path yields the translations that were saved.               *)
(***************************************************************************)
C6_RoundTrip ==
    [][(/\ Len(calls') >= 3
        /\ calls' # calls
        /\ SubSeq(calls', Len(calls') - 2, Len(calls')) = <<"update", "save", "construct">>)
          => po'.translations = po.translations]_vars

(***************************************************************************)
(* C7: every is_updated() returns true iff the content of the file at the  *)
(* time of the call differs from its content when the object was           *)
(* constructed (an absent file differing from any existing one).           *)
(***************************************************************************)
C7_IsUpdatedCompares ==
    LastCall = "is_updated" => (answer <=> read(disk[po.filename]) # po.before)

(***************************************************************************)
(* C8: in run(directory), once an error is collected no catalog is         *)
(* constructed or written; a run that collected no error ends with every   *)
(* language's catalog updated from the pool and saved.                     *)
(***************************************************************************)
RunEnded == pc \in {"found errors", "updated files", "raised"}

C8_ErrorsBlockCatalogs ==
    [][/\ error_count > 0 => (disk' = disk /\ po' = po)
       /\ (RunEnded' /\ ~RunEnded /\ error_count' = 0) =>
             /\ lang_i' = Len(LANGUAGES) + 1
             /\ \A l \in Langs : disk'[l].some
             /\ Keys(po'.translations) = Distinct(reporter')
             /\ disk'[po'.filename] = save(po'.translations)]_vars

(***************************************************************************)
(* C11: for a statement `_(ctx, T).format(...)` with a valid literal T,    *)
(* the strings hold exactly one entry for T, whose text is T itself, there *)
(* is no error, and every translation call among the arguments of          *)
(* .format(...) has its string as well.                                    *)
(***************************************************************************)
ValidText(text) ==
    /\ text # <<>>
    /\ text[1] \notin {" ", "\t"}
    /\ text[Len(text)] \notin {" ", "\t"}
    /\ "\n" \notin Range(text)

(* the statement of line 1 *)
TheExpr == tree.a[1].a[1]

(* the values passed to a call, positional then keyword *)
Passed(call) == call.b \o [i \in DOMAIN call.c |-> call.c[i].a[1]]

IsGoodCall(node) ==
    /\ IsCandidate(node)
    /\ node.c = <<>>
    /\ Len(node.b) = 2
    /\ node.b[1].kind = "Name" /\ node.b[1].name \in {"ctx", "utx", "gtx"}
    /\ node.b[2].kind = "Constant" /\ node.b[2].val.type = "str"
    /\ ValidText(node.b[2].val.text)

C11_Case ==
    /\ pc = "done"
    /\ IsFormatCall(TheExpr)
    /\ IsGoodCall(TheExpr.a[1].a[1])
    /\ TheExpr.a[1].a[1].b[1].name = "ctx"

C11_ChainedFormat ==
    C11_Case =>
        LET template == TheExpr.a[1].a[1].b[2]
            found == SelectSeq(analyzer.strings, LAMBDA s : At(s, template))
            inside == SelectSeq(Passed(TheExpr), IsCandidate)
        IN  /\ analyzer.raised = "none"
            /\ analyzer.errors = <<>>
            /\ Texts(found) = <<template.val.text>>
            /\ \A i \in DOMAIN inside :
                  \E j \in DOMAIN analyzer.strings :
                      /\ At(analyzer.strings[j], inside[i].b[2])
                      /\ analyzer.strings[j].text = inside[i].b[2].val.text
            /\ Len(analyzer.strings) = Len(tree.a) + Len(inside)

C11_Witness ==
    /\ C11_Case
    /\ Len(tree.a) = 1
    /\ Texts(analyzer.strings) = << <<"{", "s", "}">>, <<"P">>, <<"K">> >>

(***************************************************************************)
(* C12: the strings are in source order: of two translation calls of one   *)
(* file that are both extracted, neither nested inside the other, the one  *)
(* that comes first in the source text has its string first (so for a + b  *)
(* the strings of a precede those of b, and for a mapping literal the      *)
(* strings of the first entry precede those of the second entry).          *)
(***************************************************************************)
Extracted(call) ==
    /\ Len(call.b) >= 2
    /\ \E i \in DOMAIN analyzer.strings : At(analyzer.strings[i], call.b[2])

(* the index of the first string of an extracted call *)
FirstAt(call) ==
    CHOOSE i \in DOMAIN analyzer.strings :
        /\ At(analyzer.strings[i], call.b[2])
        /\ \A j \in 1..(i - 1) : ~At(analyzer.strings[j], call.b[2])

SourceBefore(n, m) == n.line < m.line \/ (n.line = m.line /\ n.col < m.col)

Inside(n, m) == n \in Range(AllNodes(m))

C12_SourceOrder ==
    pc = "done" =>
        LET found == SelectSeq(Candidates(tree), Extracted)
        IN \A i, j \in DOMAIN found :
              (/\ SourceBefore(found[i], found[j])
               /\ ~Inside(found[i], found[j])
               /\ ~Inside(found[j], found[i]))
                  => FirstAt(found[i]) < FirstAt(found[j])

(***************************************************************************)
(* C13: no entry of `strings` starts or ends with a space or tab or        *)
(* contains a newline; a translation call whose literal does yields no     *)
(* string and exactly one error with the matching message, the start check *)
(* before the end check and the end check before the newline check.        *)
(***************************************************************************)
C13_Case ==
    /\ pc = "done"
    /\ OneCallPlainlyPlaced
    /\ TheCall.c = <<>>
    /\ Len(TheCall.b) = 2
    /\ TheCall.b[1].kind = "Name" /\ TheCall.b[1].name = "ctx"
    /\ TheCall.b[2].kind = "Constant" /\ TheCall.b[2].val.type = "str"
    /\ TheCall.b[2].val.text # <<>>
    /\ ~ValidText(TheCall.b[2].val.text)

ContentMessage(text) ==
    IF text[1] \in {" ", "\t"} THEN MsgStartWs
    ELSE IF text[Len(text)] \in {" ", "\t"} THEN MsgEndWs
    ELSE MsgNewline

C13_ContentChecked ==
    /\ pc = "done" =>
          \A i \in DOMAIN analyzer.strings : ValidText(analyzer.strings[i].text)
    /\ C13_Case =>
          /\ analyzer.raised = "none"
          /\ analyzer.strings = <<>>
          /\ Texts(analyzer.errors) = <<ContentMessage(TheCall.b[2].val.text)>>

(***************************************************************************)
(* C14: a 2-argument translation call whose second argument is neither a   *)
(* literal nor a .format() call yields no string and exactly one error,    *)
(* "Bad string argument (has to be literal, not variable)." at the callee, *)
(* whatever its first argument is, and no context diagnostic.              *)
(***************************************************************************)
C14_Case ==
    /\ pc = "done"
    /\ Candidates(tree) # <<>>
    /\ Slots(tree) \subseteq PlainSlots
    /\ Len(TheCall.b) = 2
    /\ TheCall.b[2].kind # "Constant"
    /\ ~IsFormatCall(TheCall.b[2])

(* the translation calls of the tree other than the first *)
OtherCalls == Tail(Candidates(tree))

C14_NotLiteral ==
    C14_Case =>
        /\ analyzer.raised = "none"
        /\ analyzer.errors = <<Located(TheCall.a[1].line, TheCall.a[1].col, MsgNotLiteral)>>
        /\ analyzer.warnings = <<>>
        /\ \A i \in DOMAIN analyzer.strings :
              \E j \in DOMAIN OtherCalls :
                  IsGoodCall(OtherCalls[j]) /\ At(analyzer.strings[i], OtherCalls[j].b[2])

C14_Witness ==
    /\ C14_Case
    /\ TheCall.b[1].kind = "Name" /\ TheCall.b[1].name = "foo"
    /\ TheCall.b[2].kind = "Name"
    /\ Texts(analyzer.errors) = <<MsgNotLiteral>>

(***************************************************************************)
(* C15: for every attribute name N other than ctx, utx, gtx,               *)
(* `_(self.N, "Text")` yields no string and exactly one error, whose       *)
(* message is "Inherited translation context variable has to be one of     *)
(* 'ctx', 'utx', 'gtx', got 'N'."                                          *)
(***************************************************************************)
C15_Case ==
    /\ pc = "done"
    /\ OneCallPlainlyPlaced
    /\ TheCall.c = <<>>
    /\ Len(TheCall.b) = 2
    /\ TheCall.b[1].kind = "Attribute"
    /\ TheCall.b[1].a[1].kind = "Name" /\ TheCall.b[1].a[1].name = "self"
    /\ TheCall.b[1].name \notin AcceptedContexts
    /\ TheCall.b[2].kind = "Constant" /\ TheCall.b[2].val = [type |-> "str", text |-> Text]

C15_InheritedMessage ==
    C15_Case =>
        /\ analyzer.raised = "none"
        /\ analyzer.strings = <<>>
        /\ Texts(analyzer.errors) =
              << <<"Inherited translation context variable has to be one of ">>
                 \o JoinQuoted(<<"ctx", "utx", "gtx">>)
                 \o <<", got '", TheCall.b[1].name, "'.">> >>

(***************************************************************************)
(* C16: `_(tc, T)` with a valid literal T yields exactly one string, T,    *)
(* exactly one warning, the deprecation message, and no error.             *)
(***************************************************************************)
C16_Case ==
    /\ pc = "done"
    /\ OneCallPlainlyPlaced
    /\ TheCall.c = <<>>
    /\ Len(TheCall.b) = 2
    /\ TheCall.b[1].kind = "Name" /\ TheCall.b[1].name = "tc"
    /\ TheCall.b[2].kind = "Constant" /\ TheCall.b[2].val.type = "str"
    /\ ValidText(TheCall.b[2].val.text)

C16_Deprecated ==
    C16_Case =>
        /\ analyzer.raised = "none"
        /\ analyzer.strings =
              <<Located(TheCall.b[2].line, TheCall.b[2].col, TheCall.b[2].val.text)>>
        /\ analyzer.errors = <<>>
        /\ Texts(analyzer.warnings) = <<MsgDeprecated>>

C16_Witness ==
    /\ C16_Case
    /\ Slots(tree) = {<<"Module", "a">>, <<"Expr", "a">>, <<"List", "a">>}
    /\ Texts(analyzer.strings) = << <<"{", "s", "}">> >>
    /\ Len(analyzer.warnings) = 1

(***************************************************************************)
(* C17: after constructing a PoPieFile, `errors` holds, in catalog order,  *)
(* exactly one message for each record that has a translation whose set of *)
(* {...} placeholder names differs from that of its key, and none for any  *)
(* other record; the message lists the placeholder names of the value,     *)
(* comma-joined, in order of occurrence; `translations` holds every        *)
(* loaded record.                                                          *)
(***************************************************************************)
(* the placeholder names of a text, by the position of their opening brace *)
NameFrom(text, i) ==
    LET close == CHOOSE j \in (i + 1)..Len(text) :
                    text[j] = "}" /\ \A k \in (i + 1)..(j - 1) : text[k] # "}"
    IN SubSeq(text, i + 1, close - 1)

RECURSIVE NamesFrom(_, _)
NamesFrom(text, i) ==
    IF i > Len(text) THEN <<>>
    ELSE IF text[i] = "{" THEN <<NameFrom(text, i)>> \o NamesFrom(text, i + 1)
    ELSE NamesFrom(text, i + 1)

RECURSIVE CommaJoined(_)
CommaJoined(names) ==
    IF names = <<>> THEN <<>>
    ELSE IF Len(names) = 1 THEN names[1]
    ELSE names[1] \o <<", ">> \o CommaJoined(Tail(names))

Mismatched(record) ==
    /\ record[2].some
    /\ Range(NamesFrom(record[1], 1)) # Range(NamesFrom(record[2].text, 1))

JustConstructed == calls = <<>> \/ LastCall = "construct"

C17_PlaceholderErrors ==
    JustConstructed =>
        LET bad == SelectSeq(po.translations, Mismatched)
        IN  /\ po.translations = load_strings(disk[po.filename])
            /\ po.errors =
                  [i \in DOMAIN bad |->
                      <<"Translation for '">> \o bad[i][1]
                      \o <<"' contains bad variables: ">>
                      \o CommaJoined(NamesFrom(bad[i][2].text, 1))
                      \o <<".">>]

C17_Witness ==
    /\ calls = <<"construct">>
    /\ Len(po.translations) = 3
    /\ Len(po.errors) = 2
    /\ ~po.translations[2][2].some

(***************************************************************************)
(* C18: save() leaves the file with exactly one record per entry, in       *)
(* catalog order: a line `msgid <key>` and a line `msgstr <value>`, or a   *)
(* bare `msgstr` line for an absent translation; one blank line between    *)
(* consecutive records and none after the last; an empty file for an empty *)
(* catalog; whatever the file held before.                                 *)
(***************************************************************************)
RECURSIVE RecordLines(_)
(* the lines of the records of a catalog, blank lines included *)
RecordLines(translations) ==
    IF translations = <<>> THEN <<>>
    ELSE LET key == Head(translations)[1]
             value == Head(translations)[2]
         IN (IF value.some THEN Record(key, value.text) ELSE Untranslated(key))
            \o (IF Len(translations) > 1 THEN << <<>> >> ELSE <<>>)
            \o RecordLines(Tail(translations))

C18_SaveFormat ==
    [][(calls' # calls /\ calls'[Len(calls')] = "save")
          => /\ disk'[po.filename] = FileOf(RecordLines(po.translations))
             /\ \A l \in Langs \ {po.filename} : disk'[l] = disk[l]
             /\ po' = po]_vars

C18_Witness ==
    /\ calls = <<"update", "save">>
    /\ po.translations = << << <<"T">>, Some(<<"X">>) >>, << <<"U">>, None >> >>
    /\ po.before # read(disk[po.filename])

(***************************************************************************)
(* C19: a translation call that fails a check (argument count, misplaced   *)
(* .format(), literal, context, textual type, content, in this order)      *)
(* yields exactly one diagnostic in total, that of the first failing       *)
(* check, and no string.                                                   *)
(***************************************************************************)
GoodContext(node) ==
    \/ node.kind = "Name" /\ node.name \in Range(CONTEXTS) \cup {"tc"}
    \/ /\ node.kind = "Attribute" /\ node.name \in Range(CONTEXTS)
       /\ node.a[1].kind = "Name" /\ node.a[1].name = "self"

(* the check a call fails first: "none" when it passes all of them *)
FirstFailure(call) ==
    IF Len(call.b) # 2 THEN "arity"
    ELSE IF IsFormatCall(call.b[2]) THEN "format"
    ELSE IF call.b[2].kind # "Constant" THEN "literal"
    ELSE IF ~GoodContext(call.b[1]) THEN "context"
    ELSE IF call.b[2].val.type # "str" THEN "type"
    ELSE IF call.b[2].val.text # <<>> /\ ~ValidText(call.b[2].val.text) THEN "content"
    ELSE "none"

(* the message of the first failing check, where the check fixes it *)
FailureMessages(call) ==
    LET failed == FirstFailure(call)
    IN CASE failed = "arity" -> {MsgArgCount(Len(call.b))}
         [] failed = "format" -> {MsgBadFormat}
         [] failed = "literal" -> {MsgNotLiteral}
         [] failed = "context" -> {MsgContext(call.b[1].name), MsgInherited(call.b[1].name)}
         [] failed = "type" -> {MsgNotStr(call.b[2].val.type)}
         [] failed = "content" -> {ContentMessage(call.b[2].val.text)}

C19_Case ==
    /\ pc = "done"
    /\ OneCallPlainlyPlaced
    /\ FirstFailure(TheCall) # "none"

C19_OneDiagnostic ==
    C19_Case =>
        /\ analyzer.raised = "none"
        /\ analyzer.strings = <<>>
        /\ Len(analyzer.errors) + Len(analyzer.warnings) = 1
        /\ Len(analyzer.errors) = 1
        /\ analyzer.errors[1].text \in FailureMessages(TheCall)

(***************************************************************************)
(* C20: every call is validated at most once in a traversal: a translation *)
(* call contributes at most one string, at most one error and at most one  *)
(* warning, also when it is a keyword argument of another valid            *)
(* translation call.                                                       *)
(***************************************************************************)
CountAt(items, node) == Len(SelectSeq(items, LAMBDA item : At(item, node)))

C20_ExactlyOnce ==
    pc = "done" =>
        \A i \in DOMAIN Candidates(tree) :
            LET call == Candidates(tree)[i]
            IN  /\ Len(call.b) >= 2 => CountAt(analyzer.strings, call.b[2]) <= 1
                /\ CountAt(analyzer.errors, call.a[1]) <= 1
                /\ CountAt(analyzer.warnings, call.a[1]) <= 1

====
